---- MODULE Spec2Model ----
(***************************************************************************)
(* Helmert contrast coding encoder (category_encoders/helmert.py).         *)
(*                                                                         *)
(* A frame (pandas DataFrame) is a record                                  *)
(*   cols : sequence of column names                                       *)
(*   obj  : for each column, TRUE when its dtype is object (non-numeric)   *)
(*   rows : sequence of runs [lab, n, v]: n consecutive rows that hold the *)
(*          values v (one per column) and carry the row labels             *)
(*          lab, lab+1, .., lab+n-1.                                       *)
(* A column name is a pair <<base, i>>: <<"a", -1>> is the column "a" and  *)
(* <<"a", 0>> is the column "a_0".  Input frames carry distinct base names *)
(* other than "intercept".  NaN is the missing value of a numeric column.  *)
(***************************************************************************)
EXTENDS Integers, Sequences, FiniteSets, TLC

MaxRows   == 3      \* rows of a one-column input frame
MaxWide   == 2      \* rows of a two-column input frame
MaxLevels == 3      \* distinct category values
BigRun    == 45000  \* length of the long run of identical rows

NaN    == -1000000 \* the missing value
NoDim  == -1       \* _dim is None

A == <<"a", -1>>
B == <<"b", -1>>
intercept == <<"intercept", -1>>

\* str(col) + '_%d' % (i, )
GenName(col, i) == <<col[1], i>>

Range(s) == {s[i] : i \in DOMAIN s}
IndexOf(s, x) == CHOOSE i \in DOMAIN s : s[i] = x /\ \A j \in 1..(i-1) : s[j] # x

RECURSIVE SumSeq(_)
SumSeq(s) == IF s = <<>> THEN 0 ELSE Head(s) + SumSeq(Tail(s))

RECURSIVE Flatten(_)
Flatten(ss) == IF ss = <<>> THEN <<>> ELSE Head(ss) \o Flatten(Tail(ss))

\* X.shape[0], X.shape[1]
NRows(X) == SumSeq([i \in DOMAIN X.rows |-> X.rows[i].n])
NCols(X) == Len(X.cols)

\* X[col] as the sequence of its values, one per run
Column(X, col) == [i \in DOMAIN X.rows |-> X.rows[i].v[IndexOf(X.cols, col)]]

-----------------------------------------------------------------------------
(* Contrast matrix builder *)

\* patsy Helmert().code_without_intercept(values): the k x (k-1) matrix whose
\* column j (0-based) holds -1 in rows 0..j, j+1 in row j+1 and 0 below, and
\* one column suffix per level after the first.
Helmert(values) ==
    LET k == Len(values) IN
    [matrix |-> [i \in 1..k |-> [j \in 1..(k-1) |->
                    IF i <= j THEN -1 ELSE IF i = j + 1 THEN j ELSE 0]],
     column_suffixes |-> [j \in 1..(k-1) |-> values[j+1]]]

\* pd.DataFrame(): no rows, no columns
EmptyDataFrame == [index |-> <<>>, columns |-> <<>>, data |-> <<>>]

\* df.loc[label] = row: overwrite the row with that label, or append one
LocSet(df, label, row) ==
    IF label \in Range(df.index)
    THEN [df EXCEPT !.data[IndexOf(df.index, label)] = row]
    ELSE [df EXCEPT !.index = Append(df.index, label), !.data = Append(df.data, row)]

FitNoShift(values) ==
    IF Len(values) < 2 THEN EmptyDataFrame
    ELSE LET h  == Helmert(values)
             df == [index   |-> [i \in 1..Len(values) |-> i - 1],
                    columns |-> h.column_suffixes,
                    data    |-> h.matrix]
         IN LocSet(df, 0, [j \in 1..(Len(values) - 1) |-> 0])

FitNoZeroRow(values) ==
    IF Len(values) < 2 THEN EmptyDataFrame
    ELSE LET h  == Helmert(values)
         IN [index   |-> [i \in 1..Len(values) |-> i],
             columns |-> h.column_suffixes,
             data    |-> h.matrix]

fit_helmert_coding(values) ==
    IF Len(values) < 2 THEN EmptyDataFrame
    ELSE LET h   == Helmert(values)
             df  == [index   |-> [i \in 1..Len(values) |-> i - 1],
                     columns |-> h.column_suffixes,
                     data    |-> h.matrix]
             df1 == [df EXCEPT !.index = [i \in DOMAIN df.index |-> df.index[i] + 1]]
         IN LocSet(df1, 0, [j \in 1..(Len(values) - 1) |-> 0])

\* mod[c].loc[code]
Loc(mod, c, code) == mod.data[IndexOf(mod.index, code)][IndexOf(mod.columns, c)]

-----------------------------------------------------------------------------
(* Frames *)

HasCol(X, col) == col \in Range(X.cols)

\* X[name] = vals (one value per run): overwrite the column, or append it
SetColumn(X, name, vals) ==
    IF HasCol(X, name)
    THEN [X EXCEPT !.obj[IndexOf(X.cols, name)] = FALSE,
                   !.rows = [r \in DOMAIN X.rows |->
                       [X.rows[r] EXCEPT !.v[IndexOf(X.cols, name)] = vals[r]]]]
    ELSE [cols |-> Append(X.cols, name),
          obj  |-> Append(X.obj, FALSE),
          rows |-> [r \in DOMAIN X.rows |->
                       [X.rows[r] EXCEPT !.v = Append(X.rows[r].v, vals[r])]]]

\* A run cut where the value of the aligned series changes: the rows whose
\* label lies in 0..N-1 first, the others after.
SplitRun(run, N) ==
    LET m == IF run.lab >= N THEN 0
             ELSE IF run.lab + run.n <= N THEN run.n ELSE N - run.lab
    IN IF m = run.n \/ m = 0 THEN <<run>>
       ELSE << [run EXCEPT !.n = m],
               [run EXCEPT !.lab = run.lab + m, !.n = run.n - m] >>

\* X['intercept'] = pd.Series([1] * X.shape[0]): the series is labelled
\* 0..N-1 and the assignment aligns it on the row labels of X, so a row whose
\* label is outside 0..N-1 receives the missing value.
SetIntercept(X) ==
    LET N  == NRows(X)
        X1 == [X EXCEPT !.rows = Flatten([r \in DOMAIN X.rows |-> SplitRun(X.rows[r], N)])]
    IN SetColumn(X1, intercept,
                 [r \in DOMAIN X1.rows |->
                     IF X1.rows[r].lab >= 0 /\ X1.rows[r].lab < N THEN 1 ELSE NaN])

\* X.reindex(columns=cols): the named columns in that order; a name X does not
\* have gives a column of missing values
Reindex(X, cols) ==
    [cols |-> cols,
     obj  |-> [j \in DOMAIN cols |->
                 IF HasCol(X, cols[j]) THEN X.obj[IndexOf(X.cols, cols[j])] ELSE FALSE],
     rows |-> [r \in DOMAIN X.rows |->
                 [X.rows[r] EXCEPT !.v = [j \in DOMAIN cols |->
                     IF HasCol(X, cols[j]) THEN X.rows[r].v[IndexOf(X.cols, cols[j])]
                     ELSE NaN]]]]

\* X.drop(col, 1, inplace=True)
DropColumn(X, col) ==
    LET keep == SelectSeq([j \in DOMAIN X.cols |-> j], LAMBDA j : X.cols[j] # col)
    IN [cols |-> [j \in DOMAIN keep |-> X.cols[keep[j]]],
        obj  |-> [j \in DOMAIN keep |-> X.obj[keep[j]]],
        rows |-> [r \in DOMAIN X.rows |->
                    [X.rows[r] EXCEPT !.v = [j \in DOMAIN keep |-> X.rows[r].v[keep[j]]]]]]

\* cols[i: i + 1] = new
Splice(cols, i, new) == SubSeq(cols, 1, i - 1) \o new \o SubSeq(cols, i + 1, Len(cols))

-----------------------------------------------------------------------------
(* Column expansion *)

\* lines 223-227: the generated columns of one mapping entry, added to X
RECURSIVE AddGenerated(_, _, _, _)
AddGenerated(X, col, mod, i) ==
    IF i > Len(mod.columns) THEN X
    ELSE AddGenerated(
            SetColumn(X, GenName(col, i - 1),
                      [r \in DOMAIN X.rows |-> Loc(mod, mod.columns[i], Column(X, col)[r])]),
            col, mod, i + 1)

NewColumns(col, mod) == [i \in DOMAIN mod.columns |-> GenName(col, i - 1)]

\* one iteration of the loop over the mapping (lines 219-229); err records a
\* failed lookup (KeyError) or a column missing from cols (ValueError)
ExpandAtEnd(st, switch) ==
    [err  |-> FALSE,
     X    |-> AddGenerated(st.X, switch.col, switch.mapping, 1),
     cols |-> SelectSeq(st.cols, LAMBDA c : c # switch.col)
                \o NewColumns(switch.col, switch.mapping)]

ExpandOne(st, switch) ==
    LET col == switch.col
        mod == switch.mapping
    IN IF st.err THEN st
       ELSE IF Len(mod.columns) > 0
               /\ (~HasCol(st.X, col)
                   \/ \E code \in Range(Column(st.X, col)) : code \notin Range(mod.index))
            THEN [st EXCEPT !.err = TRUE]
       ELSE IF col \notin Range(st.cols) THEN [st EXCEPT !.err = TRUE]
       ELSE [err  |-> FALSE,
             X    |-> AddGenerated(st.X, col, mod, 1),
             cols |-> Splice(st.cols, IndexOf(st.cols, col), NewColumns(col, mod))]

RECURSIVE ExpandAll(_, _)
ExpandAll(st, mapping) ==
    IF mapping = <<>> THEN st
    ELSE ExpandAll(ExpandOne(st, Head(mapping)), Tail(mapping))

HelmertCodingNoIntercept(X_in, mapping) ==
    LET st == ExpandAll([err |-> FALSE, X |-> X_in, cols |-> X_in.cols], mapping)
    IN IF st.err THEN [err |-> TRUE, X |-> X_in]
       ELSE [err |-> FALSE, X |-> Reindex(st.X, st.cols)]

\* helmert_coding(X_in, mapping): [err, X]
helmert_coding(X_in, mapping) ==
    LET st == ExpandAll([err |-> FALSE, X |-> SetIntercept(X_in), cols |-> X_in.cols],
                        mapping)
    IN IF st.err THEN [err |-> TRUE, X |-> X_in]
       ELSE [err |-> FALSE, X |-> Reindex(st.X, <<intercept>> \o st.cols)]

-----------------------------------------------------------------------------
(* Collaborators: input normalisation, column detection, ordinal resolver *)

None    == [none |-> TRUE,  v |-> <<>>]
Some(v) == [none |-> FALSE, v |-> v]

\* util.convert_input(X): a DataFrame is returned as it is
convert_input(X) == X

\* util.get_obj_cols(X): the non-numeric columns, in frame order
get_obj_cols(X) ==
    LET idx == SelectSeq([j \in DOMAIN X.cols |-> j], LAMBDA j : X.obj[j])
    IN [j \in DOMAIN idx |-> X.cols[idx[j]]]

\* util.convert_cols_to_list(cols)
convert_cols_to_list(cols) == cols

\* the distinct values of a sequence, in order of first appearance
RECURSIVE Unique(_)
Unique(s) ==
    IF s = <<>> THEN <<>>
    ELSE LET u == Unique(SubSeq(s, 1, Len(s) - 1))
         IN IF s[Len(s)] \in Range(u) THEN u ELSE Append(u, s[Len(s)])

NoOrdinalEncoder       == [state |-> "none",     category_mapping |-> <<>>]
UnfittedOrdinalEncoder == [state |-> "unfitted", category_mapping |-> <<>>]

\* OrdinalEncoder(cols=cols).fit(X): each target column's levels receive the
\* codes 1..k in order of first appearance; fails when X lacks a target column
OrdinalFit(X, cols) ==
    IF \E i \in DOMAIN cols : ~HasCol(X, cols[i])
    THEN [err |-> TRUE, enc |-> UnfittedOrdinalEncoder]
    ELSE [err |-> FALSE,
          enc |-> [state |-> "fitted",
                   category_mapping |-> [i \in DOMAIN cols |->
                       LET cats == Unique(Column(X, cols[i]))
                       IN [col |-> cols[i],
                           mapping |-> [j \in DOMAIN cats |-> <<cats[j], j>>]]]]]

\* the code of a value: its fitted code, 0 for a value not seen by fit
CodeOf(pairs, value) ==
    IF \E j \in DOMAIN pairs : pairs[j][1] = value
    THEN pairs[CHOOSE j \in DOMAIN pairs : pairs[j][1] = value][2]
    ELSE 0

RECURSIVE OrdinalApply(_, _)
OrdinalApply(X, category_mapping) ==
    IF category_mapping = <<>> THEN X
    ELSE LET switch == Head(category_mapping)
         IN OrdinalApply(
               SetColumn(X, switch.col,
                         [r \in DOMAIN X.rows |->
                             CodeOf(switch.mapping, Column(X, switch.col)[r])]),
               Tail(category_mapping))

\* ordinal_encoder.transform(X): every target column replaced in place by its
\* codes; fails when the resolver is not fitted or X lacks a target column
OrdinalTransform(oe, X) ==
    IF oe.state # "fitted"
       \/ \E i \in DOMAIN oe.category_mapping : ~HasCol(X, oe.category_mapping[i].col)
    THEN [err |-> TRUE, X |-> X]
    ELSE [err |-> FALSE, X |-> OrdinalApply(X, oe.category_mapping)]

\* util.get_generated_cols(X_original, X_transformed, to_transform): the
\* columns of the transformed frame that are not untouched original columns
get_generated_cols(X_original, X_transformed, to_transform) ==
    Range(X_transformed.cols) \ (Range(X_original.cols) \ Range(to_transform))

-----------------------------------------------------------------------------
(* Variance *)

VarThresholdInv == 10000  \* 10e-5 = 1 / 10000

\* X[x].var() <= 1 / inv: the sample variance (ddof = 1) over the values that
\* are not missing; with fewer than two such values the variance is NaN and
\* the comparison is false.  var = S / (cnt * (cnt - 1)), where
\* S = cnt * sum(x^2) - sum(x)^2 = sum over pairs of runs r < q of
\* n_r * n_q * (x_r - x_q)^2.
VarAtMost(X, x, inv) ==
    LET vals == Column(X, x)
        w    == [r \in DOMAIN X.rows |-> IF vals[r] = NaN THEN 0 ELSE X.rows[r].n]
        cnt  == SumSeq(w)
        S    == SumSeq([r \in DOMAIN w |->
                    SumSeq([q \in DOMAIN w |->
                        IF q > r /\ w[r] > 0 /\ w[q] > 0
                        THEN w[r] * w[q] * (vals[r] - vals[q]) * (vals[r] - vals[q])
                        ELSE 0])])
    IN cnt > 1 /\ S <= (cnt * (cnt - 1)) \div inv

-----------------------------------------------------------------------------
(* Encoder *)

VARIABLES return_df, drop_invariant, drop_cols, mapping, cols, ordinal_encoder,
          dim,        \* the fields of the encoder
          ctor_cols,  \* the cols argument the encoder was built with
          call,       \* the call in progress: operation, argument, outcome
          fit_ncols   \* columns of the frame of the latest fit call

enc_vars == <<return_df, drop_invariant, drop_cols, mapping, cols, ordinal_encoder, dim>>
vars     == <<return_df, drop_invariant, drop_cols, mapping, cols, ordinal_encoder,
              dim, ctor_cols, call, fit_ncols>>

Self == [return_df |-> return_df, drop_invariant |-> drop_invariant,
         drop_cols |-> drop_cols, mapping |-> mapping, cols |-> cols,
         ordinal_encoder |-> ordinal_encoder, dim |-> dim]

NoFrame == [cols |-> <<>>, obj |-> <<>>, rows |-> <<>>]

Raise(what)   == [kind |-> "error", err |-> what, X |-> NoFrame, ncols |-> 0]
ReturnDf(X)   == [kind |-> "frame", err |-> "", X |-> X, ncols |-> NCols(X)]
\* X.values: the cells without column names and without row labels
ReturnValues(X) ==
    [kind |-> "array", err |-> "",
     X |-> [cols |-> <<>>, obj |-> <<>>,
            rows |-> [r \in DOMAIN X.rows |-> [X.rows[r] EXCEPT !.lab = 0]]],
     ncols |-> NCols(X)]
ReturnSelf    == [kind |-> "self", err |-> "", X |-> NoFrame, ncols |-> 0]
NoResult      == [kind |-> "none", err |-> "", X |-> NoFrame, ncols |-> 0]

\* for col in self.drop_cols: X.drop(col, 1, inplace=True)
RECURSIVE DropAll(_, _)
DropAll(X, drops) ==
    IF drops = {} THEN X
    ELSE LET col == CHOOSE c \in drops : TRUE
         IN DropAll(DropColumn(X, col), drops \ {col})

\* transform, from the point where the resolver is consulted (lines 184-195)
Encode(self, X) ==
    LET o == OrdinalTransform(self.ordinal_encoder, X) IN
    IF o.err THEN Raise("resolver")
    ELSE IF self.mapping.none THEN Raise("mapping")
    ELSE LET h == helmert_coding(o.X, self.mapping.v) IN
    IF h.err THEN Raise("lookup")
    ELSE IF self.drop_invariant /\ \E c \in self.drop_cols : ~HasCol(h.X, c)
    THEN Raise("drop")
    ELSE LET Xd == IF self.drop_invariant THEN DropAll(h.X, self.drop_cols) ELSE h.X
         IN IF self.return_df THEN ReturnDf(Xd) ELSE ReturnValues(Xd)

TransformNoFitCheck(self, X_in) ==
    LET X == convert_input(X_in) IN
    IF NCols(X) # self.dim THEN Raise("dimension")
    ELSE IF self.cols.none \/ self.cols.v = <<>> THEN ReturnDf(X)
    ELSE Encode(self, X)

TransformCheckLate(self, X_in) ==
    IF self.dim = NoDim THEN Raise("not fitted")
    ELSE LET X == convert_input(X_in) IN
    IF self.cols.none \/ self.cols.v = <<>> THEN ReturnDf(X)
    ELSE LET out == Encode(self, X) IN
    IF out.kind = "error" THEN out
    ELSE IF NCols(X) # self.dim THEN Raise("dimension")
    ELSE out

transform(self, X_in) ==
    IF self.dim = NoDim THEN Raise("not fitted")
    ELSE LET X == convert_input(X_in) IN
    IF NCols(X) # self.dim THEN Raise("dimension")
    ELSE IF self.cols.none \/ self.cols.v = <<>> THEN ReturnDf(X)
    ELSE Encode(self, X)

\* lines 138-145
MappingsOut(ordinal_mapping) ==
    [i \in DOMAIN ordinal_mapping |->
        LET switch == ordinal_mapping[i]
            values == [j \in DOMAIN switch.mapping |-> switch.mapping[j][2]]
        IN [col |-> switch.col, mapping |-> fit_helmert_coding(values)]]

\* fit(X): [self, out]; an exception leaves the fields assigned before it
fit(self, X_in) ==
    LET X  == convert_input(X_in)
        s1 == [self EXCEPT !.dim = NCols(X)]
        s2 == [s1 EXCEPT !.cols = IF self.cols.none THEN Some(get_obj_cols(X))
                                  ELSE Some(convert_cols_to_list(self.cols.v))]
        oe == OrdinalFit(X, s2.cols.v)
        s3 == [s2 EXCEPT !.ordinal_encoder = oe.enc,
                         !.mapping = Some(MappingsOut(oe.enc.category_mapping))]
        s4 == [s3 EXCEPT !.drop_cols = {}]
        X_temp == transform(s4, X)
        generated_cols == get_generated_cols(X, X_temp.X, s4.cols.v)
    IN IF oe.err
       THEN [self |-> [s2 EXCEPT !.ordinal_encoder = UnfittedOrdinalEncoder],
             out |-> Raise("resolver")]
       ELSE IF ~self.drop_invariant THEN [self |-> s3, out |-> ReturnSelf]
       ELSE IF X_temp.kind = "error" THEN [self |-> s4, out |-> X_temp]
       ELSE IF X_temp.kind = "array" THEN [self |-> s4, out |-> Raise("no columns")]
       ELSE [self |-> [s4 EXCEPT !.drop_cols =
                          {x \in generated_cols : VarAtMost(X_temp.X, x, VarThresholdInv)}],
             out  |-> ReturnSelf]

-----------------------------------------------------------------------------
(* Input frames *)

Numerics == {10}

SortedSeqs(R) ==
    {s \in [1..R -> 1..MaxLevels] : \A i \in 1..(R - 1) : s[i] <= s[i + 1]}

\* a column of R rows: an object column of category values, or a numeric one
ColumnChoices(R) ==
    {[obj |-> TRUE, data |-> s] : s \in SortedSeqs(R)}
    \cup {[obj |-> FALSE, data |-> [i \in 1..R |-> x]] : x \in Numerics}

\* the same with at most two levels, the second from row 2 on
NarrowChoices(R) ==
    {c \in ColumnChoices(R) :
        c.obj => \A i \in 1..R : /\ c.data[i] <= 2
                                  /\ c.data[i] = (IF i = 1 THEN 1 ELSE c.data[R])}

Plain(R) == [i \in 1..R |-> [lab |-> i - 1, n |-> 1]]
Shifted  == << [lab |-> 1, n |-> 1], [lab |-> 2, n |-> 1] >>
Long     == << [lab |-> 0, n |-> BigRun], [lab |-> BigRun, n |-> 1] >>

MkFrame(names, columns, shape) ==
    [cols |-> names,
     obj  |-> [j \in DOMAIN names |-> columns[j].obj],
     rows |-> [r \in DOMAIN shape |->
                 [lab |-> shape[r].lab, n |-> shape[r].n,
                  v   |-> [j \in DOMAIN names |-> columns[j].data[r]]]]]

DeepFrames ==
    {MkFrame(<<A>>, <<c>>, Plain(R)) : <<R, c>> \in
        UNION {{<<R, c>> : c \in ColumnChoices(R)} : R \in 0..MaxRows}}
    \cup {MkFrame(<<A>>, <<c>>, shape) : c \in ColumnChoices(2), shape \in {Shifted, Long}}

WideFrames ==
    {MkFrame(t[1], <<t[3], t[4]>>, Plain(t[2])) : t \in
        UNION {{<<names, R, c1, c2>> : names \in {<<A, B>>, <<B, A>>},
                                       c1 \in NarrowChoices(R), c2 \in NarrowChoices(R)}
               : R \in 0..MaxWide}}

Frames == DeepFrames \cup WideFrames

\* a mapping handed to the constructor
GivenMapping == << [col |-> A, mapping |-> fit_helmert_coding(<<1, 2>>)] >>

-----------------------------------------------------------------------------
(* Specification *)

NoCall == [op |-> "none", X |-> NoFrame, out |-> NoResult]

\* lines 85-95
Init ==
    /\ return_df \in BOOLEAN
    /\ drop_invariant \in BOOLEAN
    /\ drop_cols = {}
    /\ mapping \in {None, Some(GivenMapping)}
    /\ cols \in {None, Some(<<B, A>>)}
    /\ ordinal_encoder = NoOrdinalEncoder
    /\ dim = NoDim
    /\ ctor_cols = cols
    /\ call = NoCall
    /\ fit_ncols = NoDim

Store(self) ==
    /\ return_df' = self.return_df
    /\ drop_invariant' = self.drop_invariant
    /\ drop_cols' = self.drop_cols
    /\ mapping' = self.mapping
    /\ cols' = self.cols
    /\ ordinal_encoder' = self.ordinal_encoder
    /\ dim' = self.dim

Fit ==
    /\ call.op = "none"
    /\ \E X \in Frames :
          LET r == fit(Self, X)
          IN /\ Store(r.self)
             /\ call' = [op |-> "fit", X |-> X, out |-> r.out]
             /\ fit_ncols' = NCols(X)
             /\ UNCHANGED ctor_cols

Transform ==
    /\ call.op = "none"
    /\ \E X \in Frames :
          /\ call' = [op |-> "transform", X |-> X, out |-> transform(Self, X)]
          /\ UNCHANGED <<enc_vars, ctor_cols, fit_ncols>>

\* the call returns to the caller
Return ==
    /\ call.op # "none"
    /\ call' = NoCall
    /\ UNCHANGED <<enc_vars, ctor_cols, fit_ncols>>

Next == Fit \/ Transform \/ Return

Spec == Init /\ [][Next]_vars

-----------------------------------------------------------------------------
(* Properties *)

\* the fields of a newly built encoder with this configuration
Fresh == [return_df |-> return_df, drop_invariant |-> drop_invariant,
          drop_cols |-> {}, mapping |-> None, cols |-> ctor_cols,
          ordinal_encoder |-> NoOrdinalEncoder, dim |-> NoDim]

\* the number of levels the resolver fitted for the i-th target column
Levels(i) == Len(ordinal_encoder.category_mapping[i].mapping)

Max(a, b) == IF a >= b THEN a ELSE b

\* first row position (0-based) of each run, and the cell at a row position
RunStart(X, r) == SumSeq([i \in 1..(r - 1) |-> X.rows[i].n])
Starts(X) == {RunStart(X, r) : r \in DOMAIN X.rows}
RunAt(X, p) == CHOOSE r \in DOMAIN X.rows :
                  RunStart(X, r) <= p /\ p < RunStart(X, r) + X.rows[r].n
CellAt(X, col, p) == X.rows[RunAt(X, p)].v[IndexOf(X.cols, col)]

\* the Helmert coefficient of code c in contrast j, as the documentation gives it
Coefficient(c, j) ==
    IF c = 0 THEN 0
    ELSE IF c - 1 <= j THEN -1 ELSE IF c - 1 = j + 1 THEN j + 1 ELSE 0

Returned == call.out.kind \in {"frame", "array"}

\* C1: transform on an encoder no fit call has reached raises the not-fitted
\* error and leaves the fields of the encoder as they were.
C1_TransformBeforeFit ==
    [][(call.op = "none" /\ call'.op = "transform" /\ fit_ncols = NoDim)
         => (call'.out = Raise("not fitted") /\ UNCHANGED enc_vars)]_vars

C1_Witness ==
    /\ call.op = "transform" /\ fit_ncols = NoDim
    /\ ~mapping.none /\ ~cols.none
    /\ call.out.kind = "error"

\* C2: once fit has been called, transform of a frame whose column count is
\* not that of the frame of the latest fit raises the dimension error, before
\* the resolver is consulted, and leaves the fields of the encoder as they were.
C2_DimensionMismatch ==
    [][(call.op = "none" /\ call'.op = "transform" /\ fit_ncols # NoDim
          /\ NCols(call'.X) # fit_ncols)
         => (call'.out = Raise("dimension") /\ UNCHANGED enc_vars)]_vars

C2_Witness ==
    /\ call.op = "transform" /\ fit_ncols # NoDim /\ NCols(call.X) # fit_ncols
    /\ call.out.kind = "error"
    /\ ordinal_encoder.state = "fitted"
    /\ \E i \in DOMAIN cols.v : ~HasCol(call.X, cols.v[i])

\* C3 as stated: the matrix of a column with k levels has max(k-1, 0) columns
\* and k+1 rows, and its row for code 0 is all zeros, for every k >= 0.
C3_Original ==
    ordinal_encoder.state = "fitted" =>
        \A i \in DOMAIN mapping.v :
            LET mod == mapping.v[i].mapping
                k   == Levels(i)
            IN /\ Len(mod.columns) = Max(k - 1, 0)
               /\ Len(mod.index) = k + 1
               /\ 0 \in Range(mod.index)
               /\ \A j \in DOMAIN mod.columns : Loc(mod, mod.columns[j], 0) = 0

\* C3 amended: for k >= 2 the matrix has k-1 columns and k+1 rows, one per
\* code 0..k, and its row for code 0 is all zeros; for k < 2 the matrix is
\* empty, with no column and no row.
C3_MatrixShape ==
    ordinal_encoder.state = "fitted" =>
        \A i \in DOMAIN mapping.v :
            LET mod == mapping.v[i].mapping
                k   == Levels(i)
            IN IF k < 2
               THEN Len(mod.columns) = 0 /\ Len(mod.index) = 0
               ELSE /\ Len(mod.columns) = k - 1
                    /\ Len(mod.index) = k + 1
                    /\ Range(mod.index) = 0..k
                    /\ \A r \in DOMAIN mod.data : Len(mod.data[r]) = k - 1
                    /\ \A j \in DOMAIN mod.columns : Loc(mod, mod.columns[j], 0) = 0

C3_Witness ==
    /\ call.op = "fit" /\ ordinal_encoder.state = "fitted"
    /\ Len(mapping.v) = 2
    /\ Levels(1) = 1 /\ mapping.v[1].mapping = EmptyDataFrame
    /\ Levels(2) = 2 /\ Len(mapping.v[2].mapping.index) = 3

\* C4: the matrix entry of code c in 1..k and contrast j in 0..k-2 is -1 when
\* c-1 <= j, j+1 when c-1 = j+1 and 0 when c-1 > j+1; each contrast sums to
\* zero over the codes 1..k; and transform writes that entry, or 0 for code 0,
\* into column "<col>_<j>" of every row.
C4_Coefficients ==
    ordinal_encoder.state = "fitted" =>
        \A i \in DOMAIN mapping.v :
            LET col   == mapping.v[i].col
                mod   == mapping.v[i].mapping
                pairs == ordinal_encoder.category_mapping[i].mapping
                k     == Levels(i)
            IN \A j \in 0..(k - 2) :
                 /\ j + 1 \in DOMAIN mod.columns
                 /\ \A c \in 1..k :
                       /\ c \in Range(mod.index)
                       /\ Loc(mod, mod.columns[j + 1], c) = Coefficient(c, j)
                 /\ SumSeq([c \in 1..k |-> Loc(mod, mod.columns[j + 1], c)]) = 0
                 /\ (call.op = "transform" /\ call.out.kind = "frame"
                       /\ ~(drop_invariant /\ GenName(col, j) \in drop_cols))
                      => /\ HasCol(call.out.X, GenName(col, j))
                         /\ NRows(call.out.X) = NRows(call.X)
                         /\ \A p \in Starts(call.X) \cup Starts(call.out.X) :
                               CellAt(call.out.X, GenName(col, j), p)
                                 = Coefficient(CodeOf(pairs, CellAt(call.X, col, p)), j)

C4_Witness ==
    /\ call.op = "transform" /\ call.out.kind = "frame"
    /\ \E i \in DOMAIN mapping.v :
          /\ Levels(i) = 3
          /\ HasCol(call.out.X, GenName(mapping.v[i].col, 1))
          /\ {-1, 1, 0} \subseteq Range(Column(call.out.X, GenName(mapping.v[i].col, 0)))
          /\ 2 \in Range(Column(call.out.X, GenName(mapping.v[i].col, 1)))

\* the column sequence the documentation gives for the expansion of a frame
ExpectedCols(X_cols) ==
    <<intercept>> \o
    Flatten([j \in DOMAIN X_cols |->
        IF \E i \in DOMAIN mapping.v : mapping.v[i].col = X_cols[j]
        THEN LET i == CHOOSE i \in DOMAIN mapping.v : mapping.v[i].col = X_cols[j]
             IN [m \in 1..Max(Levels(i) - 1, 0) |-> GenName(X_cols[j], m - 1)]
        ELSE <<X_cols[j]>>])

\* C5: the expansion returns 'intercept' first, then the input's columns in
\* their order, each mapped column replaced at its place by its generated
\* columns in ascending contrast index (by nothing when it has fewer than two
\* levels); transform returns that sequence less the dropped columns.
C5_ColumnOrder ==
    (call.op = "transform" /\ call.out.kind = "frame" /\ cols.v # <<>>) =>
        call.out.X.cols =
            SelectSeq(ExpectedCols(call.X.cols),
                      LAMBDA c : ~(drop_invariant /\ c \in drop_cols))

C5_Witness ==
    /\ call.op = "transform" /\ call.out.kind = "frame" /\ ~drop_invariant
    /\ call.X.cols = <<A, B>>
    /\ call.out.X.cols = <<intercept, GenName(A, 0), B>>

\* a mapped column with one level leaves the frame, the other is replaced
C5_WitnessRemoved ==
    /\ call.op = "transform" /\ call.out.kind = "frame" /\ ~drop_invariant
    /\ Len(mapping.v) = 2
    /\ Levels(1) = 1 /\ Levels(2) = 2
    /\ call.out.X.cols = <<intercept, GenName(A, 0)>>

\* the column count the documentation gives for the output of transform
ExpectedNCols ==
    dim - Len(mapping.v)
        + SumSeq([i \in DOMAIN mapping.v |-> Len(mapping.v[i].mapping.columns)])
        + 1
        - (IF drop_invariant THEN Cardinality(drop_cols) ELSE 0)

\* C6 as stated: every output of transform has dim - #mapped + (sum of the
\* contrast-column counts) + 1 columns, less the dropped ones, an encoder with
\* no target column included.
C6_Original ==
    (call.op = "transform" /\ Returned) => call.out.ncols = ExpectedNCols

\* C6 amended: that count holds for an encoder with at least one target
\* column; with no target column transform returns the input as it is, with
\* its dim columns and no intercept.
C6_OutputWidth ==
    (call.op = "transform" /\ Returned) =>
        IF cols.v = <<>>
        THEN call.out = ReturnDf(call.X) /\ call.out.ncols = dim
        ELSE /\ call.out.ncols = ExpectedNCols
             /\ \A r \in DOMAIN call.out.X.rows : Len(call.out.X.rows[r].v) = ExpectedNCols

C6_Witness ==
    /\ call.op = "transform" /\ Returned /\ cols.v # <<>>
    /\ drop_invariant /\ drop_cols = {intercept}
    /\ dim = 2 /\ Len(mapping.v) = 2
    /\ call.out.ncols = 2

C6_WitnessEmpty ==
    /\ call.op = "transform" /\ Returned /\ cols.v = <<>> /\ dim = 2

\* C7: the expansion keeps the rows of its input, and its 'intercept' column
\* holds 1 in every row, whatever the row labels are.
C7_Intercept ==
    (call.op = "transform" /\ call.out.kind = "frame" /\ cols.v # <<>>
       /\ HasCol(call.out.X, intercept)) =>
        /\ NRows(call.out.X) = NRows(call.X)
        /\ \A r \in DOMAIN call.out.X.rows :
              call.out.X.rows[r].v[IndexOf(call.out.X.cols, intercept)] = 1

\* the trial transform of fit: the output of transform with an empty drop list
Trial == transform([Self EXCEPT !.drop_cols = {}, !.return_df = TRUE], call.X)

\* C8: after fit with invariant dropping, the drop list is the set of the
\* generated columns of the trial transform whose variance is <= 1e-5.
C8_DropList ==
    (call.op = "fit" /\ call.out.kind = "self" /\ drop_invariant) =>
        drop_cols = {x \in get_generated_cols(call.X, Trial.X, cols.v) :
                        VarAtMost(Trial.X, x, 100000)}

\* C9: fit on a frame the resolver accepts returns the encoder, whatever the
\* configuration, with dim, mapping and the drop list set.
C9_FitSucceeds ==
    (call.op = "fit" /\ \A i \in DOMAIN cols.v : HasCol(call.X, cols.v[i])) =>
        /\ call.out = ReturnSelf
        /\ dim = NCols(call.X)
        /\ ~mapping.none

\* C10: on an encoder built without a column list, the fields a fit leaves
\* are those a new encoder of the same configuration has after one fit on
\* that frame; the target columns are the non-numeric columns of that frame.
C10_RefitIsFresh ==
    (call.op = "fit" /\ ctor_cols.none) =>
        /\ cols.v = get_obj_cols(call.X)
        /\ Self = fit(Fresh, call.X).self

====
